---- MODULE Spec2Model ----
(***************************************************************************)
(* Model of the asynchronous URL checker (src/py.py): process_csv reads    *)
(* the input, creates a semaphore of max_concurrency permits and an HTTP   *)
(* session, check_urls launches one process_row task per row and gathers   *)
(* them, check_url probes one URL under the semaphore, and process_csv     *)
(* finally writes good.csv and bad.csv.                                    *)
(*                                                                         *)
(* A row is identified by its input position 1..n.  The tasks run on one   *)
(* cooperative event loop: a step of the model is the code a task runs     *)
(* between two suspension points (permit wait, HTTP await, sleep).         *)
(***************************************************************************)
EXTENDS Integers, Sequences, FiniteSets, TLC

\* ---- bounds of the model ------------------------------------------------
MaxRecords == 3          \* rows of data.csv: 0..MaxRecords
MaxCap == 2              \* largest max_concurrency tried
MinCap == 0 - 1          \* smallest max_concurrency tried (an invalid one)

\* ---- inputs drawn from small sets ---------------------------------------
\* status codes a server may answer with (both edges of [200, 300) included)
Statuses == {199, 200, 299, 300, 404}
\* exceptions session.get raises after the request was suspended
AsyncExceptions == {"ClientConnectorError", "TimeoutError"}
\* exception session.get raises before its first suspension (malformed URL)
SyncException == "InvalidURL"
\* what Task.cancel() throws into a coroutine at its suspension point
Cancelled == "CancelledError"
NoException == "none"
NoStatus == 0
\* content of an output file that was never written
NoFile == <<0>>

VARIABLES
    hasColumn,        \* df.columns contains the URL column
    n,                \* number of rows of df
    max_concurrency,  \* the module-level setting
    pc,               \* position of process_csv / check_urls
    sem_created,      \* asyncio.Semaphore(max_concurrency) was constructed
    session,          \* "none" | "open" | "closed"
    value,            \* the semaphore's counter
    waiters,          \* tasks blocked in `async with semaphore`, FIFO
    holder,           \* tasks inside the `async with semaphore` block
    nstarted,         \* tasks that ran their first step (in input order)
    st,               \* per row: position of its process_row task
    status,           \* per row: response.status, NoStatus if no response
    exc,              \* per row: exception raised inside check_url
    requests,         \* per row: number of session.get calls issued
    good_rows,        \* check_urls' local list
    bad_rows,         \* check_urls' local list
    good_csv,         \* content written to good_file, NoFile if unwritten
    bad_csv,          \* content written to bad_file, NoFile if unwritten
    cancel_requested  \* the main task was cancelled while in gather

vars == <<hasColumn, n, max_concurrency, pc, sem_created, session, value,
          waiters, holder, nstarted, st, status, exc, requests, good_rows,
          bad_rows, good_csv, bad_csv, cancel_requested>>

config == <<hasColumn, n, max_concurrency>>
files == <<good_csv, bad_csv>>
lists == <<good_rows, bad_rows>>
sem == <<value, waiters, holder>>

Rows == 1..n

\* ---- helpers --------------------------------------------------------------
RECURSIVE Count(_, _)
Count(s, x) ==
    IF s = <<>> THEN 0
    ELSE (IF Head(s) = x THEN 1 ELSE 0) + Count(Tail(s), x)

InSeq(s, x) == \E k \in 1..Len(s) : s[k] = x

RECURSIVE Without(_, _)
Without(s, x) ==
    IF s = <<>> THEN <<>>
    ELSE IF Head(s) = x THEN Without(Tail(s), x)
    ELSE <<Head(s)>> \o Without(Tail(s), x)

Sorted(s) == \A a, b \in 1..Len(s) : a < b => s[a] < s[b]

InFlight == {i \in Rows : st[i] \in {"requesting", "delay"}}
Finished == {i \in Rows : st[i] \in {"recorded", "raised"}}

\* ---- the program's pure parts ----------------------------------------------
\* line 47: '发布链接' in df.columns
HasUrlColumnAlways == TRUE
HasUrlColumnAndRows == hasColumn /\ n > 0
HasUrlColumn == hasColumn

\* line 51: the initial value given to asyncio.Semaphore
SemaphoreInitOffByOne == max_concurrency + 1
SemaphoreInit == max_concurrency

\* line 17: `async with semaphore` enters at once iff a permit is free and
\* nobody queues for one
CanAcquire == value > 0 /\ waiters = <<>>

\* line 21: 200 <= response.status < 300
Is2xx(s) == 200 <= s /\ s < 300

\* line 19: one session.get per call of check_url, no loop around it
RequestsAfterRetry(i) == requests[i] + 2
RequestsAfter(i) == requests[i] + 1

\* lines 19-20: whatever the status, the body of `async with session.get`
\* sleeps request_delay next
AfterResponseOnly2xx(s) == IF Is2xx(s) THEN "delay" ELSE "recorded"
AfterResponse(s) == "delay"

\* lines 17-20: the sleep is inside the `async with semaphore` block, the
\* permit stays taken when the response arrives
ValueAfterResponseReleased == value + 1
ValueAfterResponse == value

\* line 22: the bare `except:` catches every exception, CancelledError included
CaughtClientErrorOnly(e) == e \in {"ClientConnectorError", "InvalidURL"}
CaughtExceptionOnly(e) == e # Cancelled
CaughtNothing(e) == FALSE
Caught(e) == TRUE

\* line 17: leaving the `async with semaphore` block releases the permit,
\* whether the block returned or raised
ValueAfterExitNoRelease(raisedInside) == value
ValueAfterExitNoFinally(raisedInside) ==
    IF raisedInside THEN value ELSE value + 1
ValueAfterExit(raisedInside) == value + 1

\* lines 33-36: process_row appends the row to exactly one list
GoodAfterOverwrite(i, is_valid) ==
    IF is_valid THEN <<i>> ELSE good_rows
GoodAfter(i, is_valid) ==
    IF is_valid THEN Append(good_rows, i) ELSE good_rows
BadAfterNoElse(i, is_valid) == Append(bad_rows, i)
BadAfter(i, is_valid) ==
    IF is_valid THEN bad_rows ELSE Append(bad_rows, i)

\* line 39: gather(*tasks) is done when every task has finished
AllRecorded == \A i \in Rows : st[i] = "recorded"
GatherReturnsFirstCompleted ==
    /\ ~cancel_requested
    /\ (n = 0 \/ \E i \in Rows : st[i] = "recorded")
GatherReturnsExceptions ==
    /\ nstarted = n \/ cancel_requested
    /\ \A i \in Rows : st[i] \in {"recorded", "raised"}
\* line 39: it returns the results iff all tasks returned and it was not
\* cancelled meanwhile
GatherReturns == AllRecorded /\ ~cancel_requested
\* line 39: it raises the first exception of a task, or CancelledError once
\* all tasks are done after a cancellation
GatherRaises ==
    \/ \E i \in Rows : st[i] = "raised"
    \/ cancel_requested /\ Finished = Rows

\* ---- initial state ----------------------------------------------------------
Init ==
    /\ hasColumn \in BOOLEAN
    /\ n \in 0..MaxRecords
    /\ max_concurrency \in MinCap..MaxCap
    /\ pc = "start"
    /\ sem_created = FALSE
    /\ session = "none"
    /\ value = 0
    /\ waiters = <<>>
    /\ holder = {}
    /\ nstarted = 0
    /\ st = [i \in 1..n |-> "pending"]
    /\ status = [i \in 1..n |-> NoStatus]
    /\ exc = [i \in 1..n |-> NoException]
    /\ requests = [i \in 1..n |-> 0]
    /\ good_rows = <<>>
    /\ bad_rows = <<>>
    /\ good_csv = NoFile
    /\ bad_csv = NoFile
    /\ cancel_requested = FALSE

\* ---- process_csv, up to the gather -------------------------------------------
\* lines 44-49: read the input, return at once without the URL column
ReadCsv ==
    /\ pc = "start"
    /\ pc' = IF HasUrlColumn THEN "semaphore" ELSE "no_column"
    /\ UNCHANGED <<config, sem_created, session, sem, nstarted, st, status,
                   exc, requests, lists, files, cancel_requested>>

\* line 51: asyncio.Semaphore raises ValueError for a negative value only
CreateSemaphore ==
    /\ pc = "semaphore"
    /\ IF SemaphoreInit < 0
       THEN /\ pc' = "config_error"
            /\ UNCHANGED <<sem_created, value>>
       ELSE /\ pc' = "session"
            /\ sem_created' = TRUE
            /\ value' = SemaphoreInit
    /\ UNCHANGED <<config, session, waiters, holder, nstarted, st, status,
                   exc, requests, lists, files, cancel_requested>>

\* lines 52-53, 27-39: open the session, call check_urls, which creates one
\* coroutine per row and suspends in gather
OpenSessionAndGather ==
    /\ pc = "session"
    /\ session' = "open"
    /\ pc' = "gather"
    /\ UNCHANGED <<config, sem_created, sem, nstarted, st, status, exc,
                   requests, lists, files, cancel_requested>>

\* ---- check_url / process_row ------------------------------------------------
\* lines 17-23 and 33-36: task i leaves check_url with the permit and records
\* its row; e is the exception raised inside the try block (NoException if
\* the block returned).  An exception the handler does not catch leaves
\* process_row as well.
Leave(i, e) ==
    /\ exc' = [exc EXCEPT ![i] = e]
    /\ value' = ValueAfterExit(e # NoException)
    /\ holder' = holder \ {i}
    /\ IF e = NoException \/ Caught(e)
       THEN /\ st' = [st EXCEPT ![i] = "recorded"]
            /\ good_rows' = GoodAfter(i, e = NoException /\ Is2xx(status[i]))
            /\ bad_rows' = BadAfter(i, e = NoException /\ Is2xx(status[i]))
       ELSE /\ st' = [st EXCEPT ![i] = "raised"]
            /\ UNCHANGED lists

\* line 19: with the permit in hand, task i issues its GET; the call either
\* suspends until the response arrives or raises before suspending
IssueRequest(i, sync) ==
    /\ requests' = [requests EXCEPT ![i] = RequestsAfter(i)]
    /\ IF sync
       THEN /\ exc' = [exc EXCEPT ![i] = SyncException]
            /\ IF Caught(SyncException)
               THEN /\ st' = [st EXCEPT ![i] = "recorded"]
                    /\ good_rows' = GoodAfter(i, FALSE)
                    /\ bad_rows' = BadAfter(i, FALSE)
               ELSE /\ st' = [st EXCEPT ![i] = "raised"]
                    /\ UNCHANGED lists
       ELSE /\ st' = [st EXCEPT ![i] = "requesting"]
            /\ UNCHANGED <<exc, lists>>

\* lines 31-32, 17: first step of task i: it takes a permit and issues the
\* request, or queues for a permit.  gather starts the tasks in input order.
StartTask(i) ==
    /\ pc = "gather"
    /\ ~cancel_requested
    /\ i = nstarted + 1
    /\ i \in Rows
    /\ nstarted' = i
    /\ IF CanAcquire
       THEN \E sync \in BOOLEAN :
              /\ IssueRequest(i, sync)
              /\ IF sync
                 THEN /\ value' = ValueAfterExit(TRUE) - 1
                      /\ UNCHANGED holder
                 ELSE /\ value' = value - 1
                      /\ holder' = holder \cup {i}
              /\ UNCHANGED waiters
       ELSE /\ waiters' = Append(waiters, i)
            /\ st' = [st EXCEPT ![i] = "waiting"]
            /\ UNCHANGED <<value, holder, exc, requests, lists>>
    /\ UNCHANGED <<config, pc, sem_created, session, status, files,
                   cancel_requested>>

\* line 17: the first waiter gets the permit a release made free, then
\* line 19: issues its request
Wake(i) ==
    /\ ~cancel_requested
    /\ waiters # <<>>
    /\ i = Head(waiters)
    /\ value > 0
    /\ waiters' = Tail(waiters)
    /\ \E sync \in BOOLEAN :
         /\ IssueRequest(i, sync)
         /\ IF sync
            THEN /\ value' = ValueAfterExit(TRUE) - 1
                 /\ UNCHANGED holder
            ELSE /\ value' = value - 1
                 /\ holder' = holder \cup {i}
    /\ UNCHANGED <<config, pc, sem_created, session, nstarted, status, files,
                   cancel_requested>>

\* lines 19-20: the response arrives, the task goes on to sleep request_delay
Response(i) ==
    /\ ~cancel_requested
    /\ nstarted = n
    /\ i \in Rows
    /\ st[i] = "requesting"
    /\ \E s \in Statuses : status' = [status EXCEPT ![i] = s]
    /\ st' = [st EXCEPT ![i] = AfterResponse(status'[i])]
    /\ value' = ValueAfterResponse
    /\ UNCHANGED <<config, pc, sem_created, session, waiters, holder,
                   nstarted, exc, requests, lists, files, cancel_requested>>

\* lines 19, 22-23, 35-36: the request raises (connection fault, timeout)
RequestFails(i) ==
    /\ ~cancel_requested
    /\ nstarted = n
    /\ i \in Rows
    /\ st[i] = "requesting"
    /\ \E e \in AsyncExceptions : Leave(i, e)
    /\ UNCHANGED <<config, pc, sem_created, session, waiters, nstarted,
                   status, requests, files, cancel_requested>>

\* lines 20-21, 33-36: the sleep is over, check_url returns the test of the
\* status and process_row appends the row
DelayDone(i) ==
    /\ ~cancel_requested
    /\ i \in Rows
    /\ st[i] = "delay"
    /\ Leave(i, NoException)
    /\ UNCHANGED <<config, pc, sem_created, session, waiters, nstarted,
                   status, requests, files, cancel_requested>>

\* ---- cancellation -------------------------------------------------------------
\* line 68: asyncio.run cancels the main task on an interrupt; the main task
\* waits in gather (line 39), which passes the cancellation to every task.
\* gather() of no task is done at once: with no row check_urls never suspends
\* and there is no point at which the cancellation could arrive.
Cancel ==
    /\ pc = "gather"
    /\ n > 0
    /\ ~cancel_requested
    /\ cancel_requested' = TRUE
    /\ UNCHANGED <<config, pc, sem_created, session, sem, nstarted, st,
                   status, exc, requests, lists, files>>

\* lines 17-23: CancelledError is thrown into task i where it is suspended:
\* outside the try block while it waits for a permit (or has not started),
\* inside it while it awaits the response or the sleep
CancelDeliver(i) ==
    /\ cancel_requested
    /\ i \in Rows
    /\ st[i] \in {"pending", "waiting", "requesting", "delay"}
    /\ IF st[i] \in {"pending", "waiting"}
       THEN /\ st' = [st EXCEPT ![i] = "raised"]
            /\ exc' = [exc EXCEPT ![i] = Cancelled]
            /\ waiters' = Without(waiters, i)
            /\ UNCHANGED <<value, holder, lists>>
       ELSE /\ Leave(i, Cancelled)
            /\ UNCHANGED waiters
    /\ UNCHANGED <<config, pc, sem_created, session, nstarted, status,
                   requests, files, cancel_requested>>

\* ---- the end of check_urls and process_csv --------------------------------------
\* lines 39, 52, 68: gather raises; the exception leaves check_urls and
\* process_csv, closing the session; asyncio.run cancels the tasks left
GatherRaise ==
    /\ pc = "gather"
    /\ GatherRaises
    /\ pc' = "failed"
    /\ session' = "closed"
    /\ cancel_requested' = TRUE
    /\ UNCHANGED <<config, sem_created, sem, nstarted, st, status, exc,
                   requests, lists, files>>

\* lines 39-41: every task is done, check_urls returns the two lists
CheckUrlsReturn ==
    /\ pc = "gather"
    /\ GatherReturns
    /\ pc' = "write"
    /\ UNCHANGED <<config, sem_created, session, sem, nstarted, st, status,
                   exc, requests, lists, files, cancel_requested>>

\* lines 56-63: build the two frames, write both files, leave the session
WriteFiles ==
    /\ pc = "write"
    /\ good_csv' = good_rows
    /\ bad_csv' = bad_rows
    /\ pc' = "done"
    /\ session' = "closed"
    /\ UNCHANGED <<config, sem_created, sem, nstarted, st, status, exc,
                   requests, lists, cancel_requested>>

Next ==
    \/ ReadCsv
    \/ CreateSemaphore
    \/ OpenSessionAndGather
    \/ \E i \in 1..MaxRecords + 1 : StartTask(i)
    \/ \E i \in 1..MaxRecords + 1 : Wake(i)
    \/ \E i \in 1..MaxRecords + 1 : Response(i)
    \/ \E i \in 1..MaxRecords + 1 : RequestFails(i)
    \/ \E i \in 1..MaxRecords + 1 : DelayDone(i)
    \/ Cancel
    \/ \E i \in 1..MaxRecords + 1 : CancelDeliver(i)
    \/ GatherRaise
    \/ CheckUrlsReturn
    \/ WriteFiles

Spec == Init /\ [][Next]_vars

\* A run that nobody interrupts.  The event loop runs every task that is
\* ready, ClientTimeout(total=http_timeout) ends every pending request
\* (line 52) and the sleep of line 20 is finite: each step that stays
\* enabled is eventually taken.
NextRun ==
    \/ ReadCsv
    \/ CreateSemaphore
    \/ OpenSessionAndGather
    \/ \E i \in 1..MaxRecords + 1 : StartTask(i)
    \/ \E i \in 1..MaxRecords + 1 : Wake(i)
    \/ \E i \in 1..MaxRecords + 1 : Response(i)
    \/ \E i \in 1..MaxRecords + 1 : RequestFails(i)
    \/ \E i \in 1..MaxRecords + 1 : DelayDone(i)
    \/ CheckUrlsReturn
    \/ WriteFiles

Fairness ==
    /\ WF_vars(ReadCsv)
    /\ WF_vars(CreateSemaphore)
    /\ WF_vars(OpenSessionAndGather)
    /\ WF_vars(CheckUrlsReturn)
    /\ WF_vars(WriteFiles)
    /\ \A i \in 1..MaxRecords + 1 :
         /\ WF_vars(StartTask(i))
         /\ WF_vars(Wake(i))
         /\ WF_vars(Response(i) \/ RequestFails(i))
         /\ WF_vars(DelayDone(i))

LiveSpec == Init /\ [][NextRun]_vars /\ Fairness

TypeOK ==
    /\ hasColumn \in BOOLEAN
    /\ n \in 0..MaxRecords
    /\ pc \in {"start", "no_column", "semaphore", "config_error", "session",
               "gather", "write", "done", "failed"}
    /\ session \in {"none", "open", "closed"}
    /\ value \in 0..(MaxCap + 1)
    /\ holder \subseteq Rows
    /\ nstarted \in 0..n
    /\ \A i \in Rows :
         /\ st[i] \in {"pending", "waiting", "requesting", "delay",
                       "recorded", "raised"}
         /\ status[i] \in Statuses \cup {NoStatus}
         /\ requests[i] \in 0..2

\* ---- properties ---------------------------------------------------------------
Returned == pc \in {"write", "done"}
FilesWritten == good_csv # NoFile \/ bad_csv # NoFile

\* C1: when check_urls returns, every input row is in exactly one of the two
\* lists, exactly once, and the lengths of the lists add up to the input's.
C1_Partition ==
    Returned =>
        /\ \A i \in Rows : Count(good_rows, i) + Count(bad_rows, i) = 1
        /\ Len(good_rows) + Len(bad_rows) = n
        /\ \A k \in 1..Len(good_rows) : good_rows[k] \in Rows
        /\ \A k \in 1..Len(bad_rows) : bad_rows[k] \in Rows
C1_Witness ==
    /\ Returned
    /\ n >= 2
    /\ max_concurrency >= 1
    /\ good_rows # <<>>
    /\ bad_rows # <<>>

\* C2: the probes that hold a permit (awaiting the response or sleeping) are
\* never more than max_concurrency.
C2_InFlightBounded ==
    sem_created =>
        /\ Cardinality(InFlight) <= max_concurrency
        /\ Cardinality(holder) <= max_concurrency
C2_Witness ==
    /\ max_concurrency >= 1
    /\ Cardinality(InFlight) = max_concurrency
    /\ waiters # <<>>

\* C3: when check_urls returns, each list holds its rows in input order.
C3_InputOrder ==
    Returned => Sorted(good_rows) /\ Sorted(bad_rows)

\* C4: a recorded row is in good_rows iff its probe received a response with
\* 200 <= status < 300, and in bad_rows otherwise.
C4_PassedIff2xx ==
    \A i \in Rows :
        st[i] = "recorded" =>
            /\ InSeq(good_rows, i) <=> (status[i] # NoStatus /\ Is2xx(status[i]))
            /\ InSeq(bad_rows, i) <=> ~(status[i] # NoStatus /\ Is2xx(status[i]))

\* C5: a probe that has issued its request and not yet left check_url holds a
\* permit, a finished probe holds none, and once every probe has finished the
\* semaphore's value is max_concurrency again.
C5_PermitReleased ==
    /\ \A i \in Rows : st[i] \in {"requesting", "delay"} => i \in holder
    /\ \A i \in Rows : st[i] \in {"recorded", "raised"} => i \notin holder
    /\ sem_created => value = max_concurrency - Cardinality(holder)
    /\ (sem_created /\ Finished = Rows) => value = max_concurrency
C5_Witness ==
    /\ n >= 2
    /\ Finished = Rows
    /\ value = max_concurrency
    /\ \E i \in Rows : exc[i] \in AsyncExceptions
    /\ \E i \in Rows : exc[i] = NoException /\ status[i] # NoStatus

\* C6: the lists are handed out and the files written only when every row's
\* task has recorded its row.
C6_WriteAfterAll ==
    /\ (Returned \/ FilesWritten) => AllRecorded /\ nstarted = n
    /\ (ENABLED WriteFiles) => AllRecorded
C6_Witness ==
    /\ pc = "write"
    /\ n >= 2

\* C7: with max_concurrency <= 0 (and the URL column present) the run ends in
\* a configuration error before any task starts or request is issued; it
\* does not wait in gather and writes nothing.
C7_NonPositiveCapRejected ==
    (hasColumn /\ max_concurrency <= 0 /\ pc \notin {"start", "semaphore"}) =>
        /\ pc = "config_error"
        /\ nstarted = 0
        /\ \A i \in Rows : requests[i] = 0
        /\ ~FilesWritten

\* C8: without the URL column neither the semaphore nor the session is
\* created, no permit is taken, no request issued and no file written.
C8_NoColumnAborts ==
    ~hasColumn =>
        /\ pc \in {"start", "no_column"}
        /\ ~sem_created
        /\ session = "none"
        /\ holder = {}
        /\ nstarted = 0
        /\ \A i \in Rows : requests[i] = 0
        /\ ~FilesWritten
C8_Witness ==
    /\ ~hasColumn
    /\ pc = "no_column"
    /\ n >= 1

\* C9: an exception raised by the request, or a non-2xx response, never
\* leaves check_url: the task ends normally with its row in bad_rows, and
\* the batch is aborted only by a cancellation.
ProbeFailure(i) ==
    \/ exc[i] \in AsyncExceptions \cup {SyncException}
    \/ exc[i] = NoException /\ status[i] # NoStatus /\ ~Is2xx(status[i])
C9_FailureContained ==
    /\ \A i \in Rows :
         (ProbeFailure(i) /\ st[i] \in {"recorded", "raised"}) =>
             /\ st[i] = "recorded"
             /\ InSeq(bad_rows, i)
             /\ ~InSeq(good_rows, i)
    /\ \A i \in Rows : st[i] = "raised" => exc[i] = Cancelled
    /\ pc = "failed" => cancel_requested
C9_Witness ==
    /\ Returned
    /\ \E i, j, k \in Rows :
         /\ exc[i] = "TimeoutError"
         /\ exc[j] = SyncException
         /\ InSeq(good_rows, k)

\* C10: once the batch was cancelled while check_urls waited in gather,
\* neither file is ever written.
C10_CancelledWritesNothing ==
    cancel_requested => ~FilesWritten /\ pc \notin {"write", "done"}
C10_Witness ==
    /\ cancel_requested
    /\ pc = "failed"
    /\ \E i \in Rows : st[i] = "recorded" /\ exc[i] = Cancelled
    /\ \E i \in Rows : st[i] = "recorded" /\ exc[i] = NoException

\* C11: in a run that is not interrupted, with the URL column present and
\* max_concurrency >= 1, the run eventually ends with every row recorded and
\* both files written, and every probe that waits for a permit eventually
\* gets one.
Produced ==
    /\ pc = "done"
    /\ AllRecorded
    /\ good_csv = good_rows
    /\ bad_csv = bad_rows
    /\ Len(good_rows) + Len(bad_rows) = n
C11_Terminates ==
    /\ (hasColumn /\ max_concurrency >= 1) => <>Produced
    /\ \A i \in 1..MaxRecords + 1 :
         (i \in Rows /\ max_concurrency >= 1 /\ st[i] = "waiting")
             ~> (i \in Rows /\ requests[i] = 1)
C11_Witness ==
    /\ Produced
    /\ max_concurrency = 1
    /\ n >= 2
    /\ \A i \in Rows : exc[i] # SyncException
    /\ \E i \in Rows : exc[i] = "TimeoutError"

\* C12: with no row, the URL column present and a max_concurrency the
\* semaphore accepts, the run never ends in an error, issues no request,
\* takes no permit, and writes two empty files.
C12_EmptyInput ==
    (n = 0 /\ hasColumn /\ max_concurrency >= 0) =>
        /\ pc \in {"start", "semaphore", "session", "gather", "write", "done"}
        /\ ~cancel_requested
        /\ holder = {}
        /\ waiters = <<>>
        /\ nstarted = 0
        /\ sem_created => value = max_concurrency
        /\ good_rows = <<>> /\ bad_rows = <<>>
        /\ pc = "done" <=> (good_csv = <<>> /\ bad_csv = <<>>)
        /\ pc # "done" => ~FilesWritten
C12_Witness ==
    /\ n = 0
    /\ hasColumn
    /\ pc = "done"
    /\ good_csv = <<>>
    /\ bad_csv = <<>>

\* C13: a row's task moves only forward: not started or waiting, then in
\* flight (awaiting the response, then sleeping), then recorded.  It gets in
\* flight only in a step that gives it a permit; it is recorded only from in
\* flight, or in the very step in which it took a permit and its request
\* raised at once; a recorded row stays recorded and stays where it is in
\* the lists.
InFlightStates == {"requesting", "delay"}
NotYetInFlight == {"pending", "waiting"}
C13_Step(i) ==
    /\ (st[i] \notin InFlightStates /\ st'[i] \in InFlightStates) =>
           /\ st[i] \in NotYetInFlight
           /\ st'[i] = "requesting"
           /\ i \notin holder /\ i \in holder'
           /\ value' = value - 1
    /\ (st[i] # "recorded" /\ st'[i] = "recorded") =>
           \/ st[i] \in InFlightStates
           \/ /\ st[i] \in NotYetInFlight
              /\ requests[i] = 0 /\ requests'[i] = 1
              /\ value > 0
    /\ st[i] = "pending" => st'[i] \in {"pending", "waiting", "requesting",
                                         "recorded", "raised"}
    /\ st[i] = "waiting" => st'[i] \in {"waiting", "requesting", "recorded",
                                         "raised"}
    /\ st[i] = "requesting" => st'[i] \in {"requesting", "delay", "recorded"}
    /\ st[i] = "delay" => st'[i] \in {"delay", "recorded"}
    /\ st[i] = "raised" => st'[i] = "raised"
    /\ st[i] = "recorded" =>
           /\ st'[i] = "recorded"
           /\ InSeq(good_rows', i) <=> InSeq(good_rows, i)
           /\ InSeq(bad_rows', i) <=> InSeq(bad_rows, i)
C13_Lifecycle == [][\A i \in Rows : C13_Step(i)]_vars
C13_Witness ==
    /\ pc = "done"
    /\ \E i, j \in Rows :
         /\ st[i] = "recorded" /\ status[i] # NoStatus
         /\ st[j] = "recorded" /\ exc[j] = SyncException

\* C14: a probe sleeps request_delay exactly when its request got a response,
\* whatever the status; a probe whose request raised is recorded as failed
\* without sleeping.
TransportExceptions == AsyncExceptions \cup {SyncException}
C14_Step(i) ==
    /\ (st[i] # "delay" /\ st'[i] = "delay") <=>
           (status[i] = NoStatus /\ status'[i] # NoStatus)
    /\ (exc[i] = NoException /\ exc'[i] \in TransportExceptions) =>
           /\ st[i] # "delay"
           /\ st'[i] = "recorded"
           /\ status'[i] = NoStatus
           /\ bad_rows' = Append(bad_rows, i)
C14_DelayOnlyAfterResponse == [][\A i \in Rows : C14_Step(i)]_vars
C14_Witness ==
    /\ \E i \in Rows : st[i] = "delay" /\ ~Is2xx(status[i])
    /\ \E i \in Rows : st[i] = "delay" /\ Is2xx(status[i])
    /\ \E i \in Rows : st[i] = "recorded" /\ exc[i] \in AsyncExceptions

\* C15: tasks are started once each, in input order, and a row's probe
\* issues at most one GET: exactly one once it has a permit, none before.
C15_OneRequest ==
    /\ nstarted <= n
    /\ \A i \in Rows :
         /\ requests[i] <= 1
         /\ i > nstarted => st[i] \in {"pending", "raised"}
         /\ i <= nstarted => st[i] # "pending"
         /\ st[i] \in {"requesting", "delay", "recorded"} => requests[i] = 1
         /\ st[i] \in {"pending", "waiting"} => requests[i] = 0
C15_Witness ==
    /\ pc = "done"
    /\ n >= 2
    /\ \A i \in Rows : requests[i] = 1
    /\ \E i \in Rows : exc[i] = "TimeoutError"
    /\ \E i \in Rows : status[i] = 404

\* C16: at every moment the two lists together hold exactly the recorded
\* rows, each once: no append of one task is lost, overwritten or doubled by
\* the appends of the others.
C16_NoLostAppend ==
    /\ \A i \in Rows :
         Count(good_rows, i) + Count(bad_rows, i) =
             (IF st[i] = "recorded" THEN 1 ELSE 0)
    /\ Len(good_rows) + Len(bad_rows) =
           Cardinality({i \in Rows : st[i] = "recorded"})
C16_Witness ==
    /\ max_concurrency >= 2
    /\ Len(good_rows) >= 2
    /\ ~Sorted(good_rows)
    /\ InFlight # {}

\* C17: a sleeping probe still holds its permit: the permits taken are
\* exactly those of the probes awaiting a response or sleeping, no probe
\* gets in flight in a step that starts with max_concurrency probes asleep,
\* and a probe gives its permit back only in the step that ends its sleep
\* or its request.
Sleeping == {i \in Rows : st[i] = "delay"}
C17_Step ==
    /\ (sem_created /\ Cardinality(Sleeping) = max_concurrency) =>
           \A j \in Rows :
               st[j] \in NotYetInFlight =>
                   st'[j] \notin InFlightStates /\ requests'[j] = requests[j]
    /\ \A i \in Rows :
           (st[i] = "requesting" /\ st'[i] = "delay") =>
               /\ i \in holder'
               /\ value' = value
C17_PermitHeldDuringDelay ==
    /\ [](\A i \in 1..MaxRecords + 1 :
            (i \in Rows /\ st[i] = "delay") => i \in holder)
    /\ [](sem_created => value = max_concurrency - Cardinality(InFlight))
    /\ [][C17_Step]_vars
C17_Witness ==
    /\ max_concurrency >= 1
    /\ Cardinality(Sleeping) = max_concurrency
    /\ waiters # <<>>
    /\ value = 0

\* C18: a CancelledError thrown into a probe that awaits the response or
\* sleeps is caught: the row is appended to bad_rows and the task ends
\* normally.  Thrown into a task that waits for a permit (or has not
\* started) it leaves check_url: the task ends cancelled and the row is in
\* neither list.
C18_Step(i) ==
    (exc[i] # Cancelled /\ exc'[i] = Cancelled) =>
        IF st[i] \in InFlightStates
        THEN /\ st'[i] = "recorded"
             /\ bad_rows' = Append(bad_rows, i)
             /\ good_rows' = good_rows
             /\ i \notin holder'
        ELSE /\ st[i] \in NotYetInFlight
             /\ st'[i] = "raised"
             /\ UNCHANGED lists
             /\ ~InSeq(good_rows, i) /\ ~InSeq(bad_rows, i)
             /\ ~InSeq(waiters', i)
C18_CancelSwallowedInsideTry == [][\A i \in Rows : C18_Step(i)]_vars
C18_Witness ==
    /\ \E i \in Rows :
         /\ st[i] = "recorded" /\ exc[i] = Cancelled /\ status[i] = NoStatus
         /\ InSeq(bad_rows, i)
    /\ \E i \in Rows :
         /\ st[i] = "recorded" /\ exc[i] = Cancelled /\ status[i] # NoStatus
         /\ InSeq(bad_rows, i)
    /\ \E i \in Rows :
         /\ st[i] = "raised" /\ exc[i] = Cancelled /\ requests[i] = 0
====
